---- MODULE Spec2Model ----
(***************************************************************************)
(* A model of the guessing game: the evaluator, the menu, the secret       *)
(* number generator, the game round (Game::play in game.rs and play_game   *)
(* in main.rs) and the session loop of main.                               *)
(*                                                                         *)
(* Text is modelled as a sequence of one-character strings, so trimming,   *)
(* integer parsing and integer formatting are computed, not assumed.       *)
(* The writer and the reader are modelled together as one log `io` of      *)
(* write and read events, in the order the program performs them.          *)
(***************************************************************************)
EXTENDS Integers, Sequences, FiniteSets, TLC

VARIABLES
    pc,             \* position of the program
    playing,        \* main: `playing`
    thread_rng,     \* NumberGenerator.thread_rng: "None" or "Some"
    min,            \* NumberGenerator.min
    max,            \* NumberGenerator.max
    secret,         \* the round's secret (-1: none yet)
    res,            \* play: `res`, "Unknown", "Quit" or "Ok" ("None": not in a round)
    keep_guessing,  \* play: `keep_guessing`
    menu_res,       \* main: `res`, the value menu returned
    io,             \* the reads and writes since the last start of main's loop body
    args,           \* arguments of the function called in SpecEval and SpecMenu
    ret             \* its result

vars == <<pc, playing, thread_rng, min, max, secret, res, keep_guessing,
          menu_res, io, args, ret>>

----------------------------------------------------------------------------
(* Bounds of the model *)

\* lines a single round may read
MaxReads == 2
\* length of the input lines of SpecMenu
MaxLineLen == 3
\* number of options of the menus of SpecMenu
MaxChoices == 3
\* largest min/max given to NumberGenerator::new besides the default
MaxRange == 6
\* calls of gen_secret on one generator in SpecLazy
MaxCalls == 3

----------------------------------------------------------------------------
(* Program constants *)

INVALID_CHOICE == "Invalid choice!"
MIN_SECRET == 0
MAX_SECRET == 100
\* u8::MAX, the largest guess and secret
U8_MAX == 255
\* usize::MAX = 18446744073709551615, as decimal digits
USIZE_MAX_DIGITS == <<1,8,4,4,6,7,4,4,0,7,3,7,0,9,5,5,1,6,1,5>>

----------------------------------------------------------------------------
(* Text: str::trim, str::parse for unsigned integers, Display for integers *)

DigitChars == <<"0", "1", "2", "3", "4", "5", "6", "7", "8", "9">>

\* char::to_digit(10); -1 stands for None
to_digit(c) ==
    IF \E i \in 1..10 : DigitChars[i] = c
    THEN (CHOOSE i \in 1..10 : DigitChars[i] = c) - 1
    ELSE -1

is_whitespace(c) == c \in {" ", "\n", "\t", "\r"}

RECURSIVE trim_start(_)
trim_start(s) ==
    IF s # <<>> /\ is_whitespace(Head(s)) THEN trim_start(Tail(s)) ELSE s

RECURSIVE trim_end(_)
trim_end(s) ==
    IF s # <<>> /\ is_whitespace(s[Len(s)])
    THEN trim_end(SubSeq(s, 1, Len(s) - 1))
    ELSE s

trim(s) == trim_end(trim_start(s))

\* Display for an unsigned integer: its decimal digits, no sign, no padding
RECURSIVE to_string(_)
to_string(n) ==
    IF n < 10
    THEN <<DigitChars[n + 1]>>
    ELSE Append(to_string(n \div 10), DigitChars[(n % 10) + 1])

RECURSIVE strip_zeros(_)
strip_zeros(ds) ==
    IF ds # <<>> /\ Head(ds) = 0 THEN strip_zeros(Tail(ds)) ELSE ds

\* lexicographic ds > ms for digit sequences of equal length
RECURSIVE lex_greater(_, _)
lex_greater(ds, ms) ==
    IF ds = <<>> THEN FALSE
    ELSE IF Head(ds) # Head(ms) THEN Head(ds) > Head(ms)
    ELSE lex_greater(Tail(ds), Tail(ms))

\* the number written by the digits ds is larger than the one written by ms:
\* the case in which checked_mul / checked_add fail while parsing
overflows(ds, ms) ==
    LET d == strip_zeros(ds) IN
    \/ Len(d) > Len(ms)
    \/ Len(d) = Len(ms) /\ lex_greater(d, ms)

RECURSIVE digits_value(_, _)
digits_value(ds, acc) ==
    IF ds = <<>> THEN acc ELSE digits_value(Tail(ds), acc * 10 + Head(ds))

RECURSIVE digits_of(_)
digits_of(n) ==
    IF n < 10 THEN <<n>> ELSE Append(digits_of(n \div 10), n % 10)

ParseOk(v) == [ok |-> TRUE, val |-> v]
ParseErr == [ok |-> FALSE, val |-> 0]

\* <unsigned integer>::from_str: an optional "+", then one or more decimal
\* digits, the value at most the type's maximum (given by its digits)
from_str(src, max_digits) ==
    LET digits == IF src # <<>> /\ Head(src) = "+" THEN Tail(src) ELSE src
        ds == [i \in 1..Len(digits) |-> to_digit(digits[i])]
    IN  IF src = <<>> \/ digits = <<>> THEN ParseErr
        ELSE IF \E i \in 1..Len(ds) : ds[i] < 0 THEN ParseErr
        ELSE IF overflows(ds, max_digits) THEN ParseErr
        ELSE ParseOk(digits_value(ds, 0))

parse_u8(src) == from_str(src, digits_of(U8_MAX))
parse_usize(src) == from_str(src, USIZE_MAX_DIGITS)

----------------------------------------------------------------------------
(* io.rs: write and prompt over the log of reads and writes *)

\* WriteArgs::Str(x)
Str(x) == [op |-> "write", fmt |-> "{}", text |-> x, num |-> <<>>, line |-> <<>>]
\* WriteArgs::Fmt(format_args!(f, n, t)): a format with a number and a text
Fmt(f, n, t) == [op |-> "write", fmt |-> f, text |-> t, num |-> n, line |-> <<>>]
\* a line handed over by the reader
ReadLine(raw) == [op |-> "read", fmt |-> "", text |-> "", num |-> <<>>, line |-> raw]

write(writer, wargs) == Append(writer, wargs)

\* a prompt that reads the line before it writes the marker
prompt_reads_first(writer, raw) ==
    LET w1 == Append(writer, ReadLine(raw))
        w2 == write(w1, Str("> "))
        w3 == write(w2, Str("\n"))
    IN  [io |-> w3, answer |-> trim(raw)]

\* a prompt that returns the line as read, its line ending included
prompt_untrimmed(writer, raw) ==
    LET w1 == write(writer, Str("> "))
        w2 == Append(w1, ReadLine(raw))
        w3 == write(w2, Str("\n"))
    IN  [io |-> w3, answer |-> raw]

prompt(writer, raw) ==
    LET w1 == write(writer, Str("> "))
        w2 == Append(w1, ReadLine(raw))
        w3 == write(w2, Str("\n"))
    IN  [io |-> w3, answer |-> trim(raw)]

----------------------------------------------------------------------------
(* The evaluator: Game::evaluate (game.rs) and evaluate (main.rs) *)

EvalOk == [ok |-> TRUE, fmt |-> "", num |-> <<>>]
\* Err(format!(f, actual))
EvalErr(f, actual) == [ok |-> FALSE, fmt |-> f, num |-> to_string(actual)]

\* a comparison that takes Less for Greater
Game_evaluate_swapped(actual, self_secret) ==
    IF actual = self_secret THEN EvalOk
    ELSE IF actual > self_secret THEN EvalErr("{} is too low!", actual)
    ELSE EvalErr("{} is too high!", actual)

Game_evaluate(actual, self_secret) ==
    IF actual = self_secret THEN EvalOk
    ELSE IF actual < self_secret THEN EvalErr("{} is too low!", actual)
    ELSE EvalErr("{} is too high!", actual)

evaluate(actual, expected) ==
    IF actual = expected THEN EvalOk
    ELSE IF actual < expected THEN EvalErr("{} is too low!", actual)
    ELSE EvalErr("{} is too high!", actual)

----------------------------------------------------------------------------
(* The menu: menu (menu.rs) and menu (main.rs) *)

MenuOk(num) == [ok |-> TRUE, val |-> num, err |-> ""]
MenuErr(reason) == [ok |-> FALSE, val |-> 0, err |-> reason]

\* a loop that numbers the choices from 0
RECURSIVE write_choices_from_zero(_, _, _)
write_choices_from_zero(writer, choices, index) ==
    IF index >= Len(choices) THEN writer
    ELSE write_choices_from_zero(
            write(writer, Fmt("{}) {}\n", to_string(index), choices[index + 1])),
            choices, index + 1)

\* for (index, choice) in choices.iter().enumerate(): write "{}) {}\n"
RECURSIVE write_choices(_, _, _)
write_choices(writer, choices, index) ==
    IF index >= Len(choices) THEN writer
    ELSE write_choices(
            write(writer, Fmt("{}) {}\n", to_string(index + 1), choices[index + 1])),
            choices, index + 1)

\* a bounds check that lets 0 through
menu_accepts_zero(choices, writer, raw) ==
    LET w1 == write(writer, Str("\nPlease choose from the following...\n"))
        w2 == write_choices(w1, choices, 0)
        p == prompt(w2, raw)
        choice == parse_usize(p.answer)
    IN  [io |-> p.io,
         result |-> IF choice.ok
                    THEN IF choice.val >= 0 /\ choice.val <= Len(choices)
                         THEN MenuOk(choice.val)
                         ELSE MenuErr(INVALID_CHOICE)
                    ELSE MenuErr(INVALID_CHOICE)]

\* a bounds check against the number of lines the writer holds after the
\* choices were written, less the header, instead of the number of choices
menu_counts_writer(choices, writer, raw) ==
    LET w1 == write(writer, Str("\nPlease choose from the following...\n"))
        w2 == write_choices(w1, choices, 0)
        p == prompt(w2, raw)
        choice == parse_usize(p.answer)
    IN  [io |-> p.io,
         result |-> IF choice.ok
                    THEN IF choice.val > 0 /\ choice.val <= Len(w2) - 1
                         THEN MenuOk(choice.val)
                         ELSE MenuErr(INVALID_CHOICE)
                    ELSE MenuErr(INVALID_CHOICE)]

menu(choices, writer, raw) ==
    LET w1 == write(writer, Str("\nPlease choose from the following...\n"))
        w2 == write_choices(w1, choices, 0)
        p == prompt(w2, raw)
        choice == parse_usize(p.answer)
    IN  [io |-> p.io,
         result |-> IF choice.ok
                    THEN IF choice.val > 0 /\ choice.val <= Len(choices)
                         THEN MenuOk(choice.val)
                         ELSE MenuErr(INVALID_CHOICE)
                    ELSE MenuErr(INVALID_CHOICE)]

\* a bounds check without the upper bound
main_menu_unbounded(choices, writer, raw) ==
    LET w1 == write(writer, Str("\nPlease choose from the following...\n"))
        w2 == write_choices(w1, choices, 0)
        p == prompt(w2, raw)
        choice == parse_usize(p.answer)
    IN  [io |-> p.io,
         result |-> IF choice.ok
                    THEN IF choice.val > 0
                         THEN MenuOk(choice.val)
                         ELSE MenuErr(INVALID_CHOICE)
                    ELSE MenuErr(INVALID_CHOICE)]

main_menu(choices, writer, raw) ==
    LET w1 == write(writer, Str("\nPlease choose from the following...\n"))
        w2 == write_choices(w1, choices, 0)
        p == prompt(w2, raw)
        choice == parse_usize(p.answer)
    IN  [io |-> p.io,
         result |-> IF choice.ok
                    THEN IF choice.val > 0 /\ choice.val <= Len(choices)
                         THEN MenuOk(choice.val)
                         ELSE MenuErr(INVALID_CHOICE)
                    ELSE MenuErr(INVALID_CHOICE)]

----------------------------------------------------------------------------
(* The secret number generator: NumberGenerator (random.rs and main.rs) *)

\* a range that includes its upper end
gen_range_inclusive(low, high) == low..high

\* the values Rng::gen_range(low, high) can return: low <= v < high
gen_range(low, high) == low..(high - 1)

\* an init_rng that returns the new generator without storing it
get_rng_not_stored(self_thread_rng) == self_thread_rng

\* get_rng / init_rng: the generator after the call, created when absent
get_rng(self_thread_rng) ==
    IF self_thread_rng = "Some" THEN self_thread_rng ELSE "Some"

----------------------------------------------------------------------------
(* The game round: Game::play (game.rs) and play_game (main.rs) *)

INVALID_INPUT ==
    "Invalid input, please guess an integer belonging to [0,100] or enter 'quit' to quit playing.\n"

QUIT == <<"q", "u", "i", "t">>

\* the loop body with one of its branches changed:
\* "correct": a correct guess sets the result and goes on guessing;
\* "quit": the quit command is taken for invalid input;
\* "invalid-quits": any line that does not parse quits the round;
\* "invalid-stops": invalid input ends the loop and leaves the result as it is;
\* "wrong-stops": a wrong guess ends the loop;
\* "wrong-sets-res": a wrong guess sets the result to the Quit error;
\* "one-newline": no blank line after the answer to a wrong guess
play_body_variant(variant, self_secret, res_in, writer, raw) ==
    LET w1 == write(writer, Str("Guess a number...\n"))
        p == prompt(w1, raw)
        guess_value == p.answer
        guess_parsed == parse_u8(guess_value)
    IN  IF guess_parsed.ok
        THEN LET evaluated == evaluate(guess_parsed.val, self_secret)
             IN  IF ~evaluated.ok
                 THEN [keep_guessing |-> (variant # "wrong-stops"),
                       res |-> IF variant = "wrong-sets-res" THEN "Quit" ELSE res_in,
                       io |-> write(p.io,
                                    Fmt(IF variant = "one-newline" THEN "{}\n" ELSE "{}\n\n",
                                        evaluated.num, evaluated.fmt))]
                 ELSE [keep_guessing |-> (variant = "correct"), res |-> "Ok",
                       io |-> write(p.io, Str("Correct! "))]
        ELSE IF (guess_value = QUIT /\ variant # "quit") \/ variant = "invalid-quits"
             THEN [keep_guessing |-> FALSE, res |-> "Quit",
                   io |-> write(p.io, Str("Quitting...\n"))]
             ELSE [keep_guessing |-> (variant # "invalid-stops"), res |-> res_in,
                   io |-> write(p.io, Str(INVALID_INPUT))]

Game_play_body_goes_on(self_secret, res_in, writer, raw) ==
    play_body_variant("correct", self_secret, res_in, writer, raw)

Game_play_body_no_quit(self_secret, res_in, writer, raw) ==
    play_body_variant("quit", self_secret, res_in, writer, raw)

Game_play_body_invalid_quits(self_secret, res_in, writer, raw) ==
    play_body_variant("invalid-quits", self_secret, res_in, writer, raw)

Game_play_body_invalid_stops(self_secret, res_in, writer, raw) ==
    play_body_variant("invalid-stops", self_secret, res_in, writer, raw)

Game_play_body_wrong_stops(self_secret, res_in, writer, raw) ==
    play_body_variant("wrong-stops", self_secret, res_in, writer, raw)

Game_play_body_wrong_sets_res(self_secret, res_in, writer, raw) ==
    play_body_variant("wrong-sets-res", self_secret, res_in, writer, raw)

\* the body of the loop of Game::play, reading the line raw
Game_play_body(self_secret, res_in, writer, raw) ==
    LET w1 == write(writer, Str("Guess a number...\n"))
        p == prompt(w1, raw)
        guess_value == p.answer
        guess_parsed == parse_u8(guess_value)
    IN  IF guess_parsed.ok
        THEN LET evaluated == Game_evaluate(guess_parsed.val, self_secret)
             IN  IF ~evaluated.ok
                 THEN [keep_guessing |-> TRUE, res |-> res_in,
                       io |-> write(p.io, Fmt("{}\n\n", evaluated.num, evaluated.fmt))]
                 ELSE [keep_guessing |-> FALSE, res |-> "Ok",
                       io |-> write(p.io, Str("Correct! "))]
        ELSE IF guess_value = QUIT
             THEN [keep_guessing |-> FALSE, res |-> "Quit",
                   io |-> write(p.io, Str("Quitting...\n"))]
             ELSE [keep_guessing |-> TRUE, res |-> res_in,
                   io |-> write(p.io, Str(INVALID_INPUT))]

play_game_body_one_newline(the_secret, res_in, writer, raw) ==
    play_body_variant("one-newline", the_secret, res_in, writer, raw)

\* the body of the loop of play_game, reading the line raw
play_game_body(the_secret, res_in, writer, raw) ==
    LET w1 == write(writer, Str("Guess a number...\n"))
        p == prompt(w1, raw)
        guess_value == p.answer
        guess_parsed == parse_u8(guess_value)
    IN  IF guess_parsed.ok
        THEN LET evaluated == evaluate(guess_parsed.val, the_secret)
             IN  IF ~evaluated.ok
                 THEN [keep_guessing |-> TRUE, res |-> res_in,
                       io |-> write(p.io, Fmt("{}\n\n", evaluated.num, evaluated.fmt))]
                 ELSE [keep_guessing |-> FALSE, res |-> "Ok",
                       io |-> write(p.io, Str("Correct! "))]
        ELSE IF guess_value = QUIT
             THEN [keep_guessing |-> FALSE, res |-> "Quit",
                   io |-> write(p.io, Str("Quitting...\n"))]
             ELSE [keep_guessing |-> TRUE, res |-> res_in,
                   io |-> write(p.io, Str(INVALID_INPUT))]

\* the lines the user types
Lines ==
    { <<"1">>,
      <<"2", "\n">>,
      <<"+", "5", "0">>,
      <<"1", "0", "0", "\n">>,
      <<"2", "5", "5">>,
      <<"2", "5", "6">>,
      <<"q", "u", "i", "t", "\n">>,
      <<"Q", "u", "i", "t">>,
      <<"-", "1">>,
      <<>> }

\* the part of the log written and read by the round: from its first prompt on
RoundStart(w) ==
    IF \E i \in 1..Len(w) : w[i] = Str("Guess a number...\n")
    THEN CHOOSE i \in 1..Len(w) :
            /\ w[i] = Str("Guess a number...\n")
            /\ \A j \in 1..(i - 1) : w[j] # Str("Guess a number...\n")
    ELSE Len(w) + 1

RoundLog(w) == SubSeq(w, RoundStart(w), Len(w))

\* the lines read in the log w, in order
RECURSIVE LinesRead(_)
LinesRead(w) ==
    IF w = <<>> THEN <<>>
    ELSE IF Head(w).op = "read" THEN <<Head(w).line>> \o LinesRead(Tail(w))
    ELSE LinesRead(Tail(w))

----------------------------------------------------------------------------
(* Values of the variables a specification does not use *)

Idle == <<>>

\* main's `res` before menu has returned
NoMenuResult == [ok |-> FALSE, val |-> 0, err |-> ""]

NoSession ==
    /\ playing = FALSE
    /\ menu_res = NoMenuResult

NoGenerator ==
    /\ thread_rng = "None"
    /\ min = MIN_SECRET
    /\ max = MAX_SECRET

NoRound ==
    /\ secret = -1
    /\ res = "None"
    /\ keep_guessing = FALSE

NoCall ==
    /\ args = Idle
    /\ ret = Idle

----------------------------------------------------------------------------
(* SpecEval: the evaluator applied to every pair of u8 values *)

InitEval ==
    /\ pc = "call"
    /\ args \in [actual : 0..U8_MAX, expected : 0..U8_MAX]
    /\ ret = Idle
    /\ io = <<>>
    /\ NoSession /\ NoGenerator /\ NoRound

CallGameEvaluate ==
    /\ pc = "call"
    /\ ret' = Game_evaluate(args.actual, args.expected)
    /\ pc' = "Game::evaluate"
    /\ UNCHANGED <<playing, thread_rng, min, max, secret, res, keep_guessing,
                   menu_res, io, args>>

CallEvaluate ==
    /\ pc = "call"
    /\ ret' = evaluate(args.actual, args.expected)
    /\ pc' = "evaluate"
    /\ UNCHANGED <<playing, thread_rng, min, max, secret, res, keep_guessing,
                   menu_res, io, args>>

NextEval == CallGameEvaluate \/ CallEvaluate

SpecEval == InitEval /\ [][NextEval]_vars

----------------------------------------------------------------------------
(* SpecMenu: the menu applied to menus of 0..MaxChoices options and to     *)
(* every line of at most MaxLineLen characters over LineAlphabet           *)

LineAlphabet == {"0", "1", "2", "3", "4", "+", "-", " ", "\n", "x"}

RECURSIVE LinesUpTo(_)
LinesUpTo(n) ==
    IF n = 0 THEN {<<>>}
    ELSE LET shorter == LinesUpTo(n - 1)
         IN  shorter \cup {Append(l, c) : l \in shorter, c \in LineAlphabet}

\* 2^64, one more than usize::MAX, and 1 behind more zeros than usize has digits
LongLines ==
    { <<"1","8","4","4","6","7","4","4","0","7","3","7","0","9","5","5","1","6","1","6">>,
      <<"0","0","0","0","0","0","0","0","0","0","0","0","0","0","0","0","0","0","0","0","0","1","\n">> }

MenuLines == LinesUpTo(MaxLineLen) \cup LongLines

Label(i) == IF i = 1 THEN "play game" ELSE IF i = 2 THEN "exit" ELSE "choice"

ChoiceLists == { [i \in 1..k |-> Label(i)] : k \in 0..MaxChoices }

InitMenu ==
    /\ pc = "call"
    /\ args \in [choices : ChoiceLists, line : MenuLines]
    /\ ret = Idle
    /\ io = <<>>
    /\ NoSession /\ NoGenerator /\ NoRound

CallMenu ==
    /\ pc = "call"
    /\ LET m == menu(args.choices, <<>>, args.line)
       IN  ret' = m.result /\ io' = m.io
    /\ pc' = "menu.rs"
    /\ UNCHANGED <<playing, thread_rng, min, max, secret, res, keep_guessing,
                   menu_res, args>>

CallMainMenu ==
    /\ pc = "call"
    /\ LET m == main_menu(args.choices, <<>>, args.line)
       IN  ret' = m.result /\ io' = m.io
    /\ pc' = "main.rs"
    /\ UNCHANGED <<playing, thread_rng, min, max, secret, res, keep_guessing,
                   menu_res, args>>

NextMenu == CallMenu \/ CallMainMenu

SpecMenu == InitMenu /\ [][NextMenu]_vars

----------------------------------------------------------------------------
(* Claims about the evaluator and the menu *)

\* C1: for every guess and secret in 0..255, evaluate returns Ok iff the
\* guess equals the secret, the "too low" message iff the guess is below the
\* secret and the "too high" message iff it is above; the message carries the
\* guess: the number printed in it reads back as the guess.
C1_EvaluateVerdict ==
    pc \in {"Game::evaluate", "evaluate"} =>
        /\ ret.ok <=> args.actual = args.expected
        /\ (~ret.ok /\ ret.fmt = "{} is too low!") <=> args.actual < args.expected
        /\ (~ret.ok /\ ret.fmt = "{} is too high!") <=> args.actual > args.expected
        /\ ~ret.ok => parse_u8(ret.num) = ParseOk(args.actual)

\* Game::evaluate of 9 against the secret 10 has answered "9 is too low!"
C1_Witness ==
    /\ pc = "Game::evaluate"
    /\ args = [actual |-> 9, expected |-> 10]
    /\ ret = [ok |-> FALSE, fmt |-> "{} is too low!", num |-> <<"9">>]

\* the line t writes the number v: an optional "+", any zeros, the digits of v
Writes(t, v) ==
    LET body == IF t # <<>> /\ Head(t) = "+" THEN Tail(t) ELSE t
    IN  \E z \in 0..Len(body) :
            body = [i \in 1..z |-> "0"] \o to_string(v)

\* C2: menu returns Ok(v) iff the trimmed line writes an integer v with
\* 1 <= v <= k, k the number of options; for every other line it returns the
\* one error value INVALID_CHOICE.
C2_MenuResult ==
    pc \in {"menu.rs", "main.rs"} =>
        LET t == trim(args.line)
            k == Len(args.choices)
        IN  /\ \A v \in 1..k : Writes(t, v) => ret = MenuOk(v)
            /\ (~ \E v \in 1..k : Writes(t, v)) => ret = MenuErr(INVALID_CHOICE)

\* menu.rs's menu with three options has returned Ok(3) for the line "+3\n"
C2_Witness ==
    /\ pc = "menu.rs"
    /\ Len(args.choices) = 3
    /\ args.line = <<"+", "3", "\n">>
    /\ ret = MenuOk(3)

----------------------------------------------------------------------------
(* The steps of a round, shared by SpecGame and Spec *)

\* play: let mut res = Err(Unknown); let mut keep_guessing = true
Game_play_start ==
    /\ pc = "start"
    /\ res' = "Unknown"
    /\ keep_guessing' = TRUE
    /\ pc' = "Game::play"
    /\ UNCHANGED <<playing, thread_rng, min, max, secret, menu_res, io, args, ret>>

\* while keep_guessing { ... }: one iteration, which blocks until a line is
\* read. The loop has no counter: MaxReads bounds only the lines that keep
\* the round going, a line that ends the round can always be read.
Game_play_loop(raw) ==
    /\ pc = "Game::play"
    /\ keep_guessing
    /\ \/ Len(LinesRead(RoundLog(io))) < MaxReads
       \/ ~Game_play_body(secret, res, io, raw).keep_guessing
    /\ LET b == Game_play_body(secret, res, io, raw)
       IN  /\ keep_guessing' = b.keep_guessing
           /\ res' = b.res
           /\ io' = b.io
    /\ UNCHANGED <<pc, playing, thread_rng, min, max, secret, menu_res, args, ret>>

\* the loop ends: play returns res
Game_play_return ==
    /\ pc = "Game::play"
    /\ ~keep_guessing
    /\ ret' = res
    /\ pc' = "returned"
    /\ UNCHANGED <<playing, thread_rng, min, max, secret, res, keep_guessing,
                   menu_res, io, args>>

\* play_game: let secret = get_secret(); let mut res = Err(Unknown);
\* let mut keep_guessing = true, get_secret() having returned s
play_game_enter(s) ==
    /\ secret' = s
    /\ res' = "Unknown"
    /\ keep_guessing' = TRUE
    /\ pc' = "play_game"

\* an iteration that asks get_secret for a new secret
play_game_loop_regenerates(raw) ==
    /\ pc = "play_game"
    /\ keep_guessing
    /\ \/ Len(LinesRead(RoundLog(io))) < MaxReads
       \/ ~play_game_body(secret, res, io, raw).keep_guessing
    /\ LET b == play_game_body(secret, res, io, raw)
       IN  /\ keep_guessing' = b.keep_guessing
           /\ res' = b.res
           /\ io' = b.io
    /\ secret' \in gen_range(MIN_SECRET, MAX_SECRET)
    /\ UNCHANGED <<pc, playing, thread_rng, min, max, menu_res, args, ret>>

\* while keep_guessing { ... }: one iteration, which blocks until a line is
\* read; MaxReads bounds only the lines that keep the round going
play_game_loop(raw) ==
    /\ pc = "play_game"
    /\ keep_guessing
    /\ \/ Len(LinesRead(RoundLog(io))) < MaxReads
       \/ ~play_game_body(secret, res, io, raw).keep_guessing
    /\ LET b == play_game_body(secret, res, io, raw)
       IN  /\ keep_guessing' = b.keep_guessing
           /\ res' = b.res
           /\ io' = b.io
    /\ UNCHANGED <<pc, playing, thread_rng, min, max, secret, menu_res, args, ret>>

\* the loop ends: play_game returns res
play_game_return ==
    /\ pc = "play_game"
    /\ ~keep_guessing
    /\ ret' = res
    /\ pc' = "returned"
    /\ UNCHANGED <<playing, thread_rng, min, max, secret, res, keep_guessing,
                   menu_res, io, args>>

----------------------------------------------------------------------------
(* SpecGame: one round, of Game::play or of play_game, for every secret a  *)
(* Game can be made with and get_secret can return                         *)

InitGame ==
    /\ pc = "start"
    /\ secret \in 0..U8_MAX
    /\ res = "None"
    /\ keep_guessing = FALSE
    /\ io = <<>>
    /\ NoSession /\ NoGenerator /\ NoCall

\* play_game called with a get_secret that returns the secret
play_game_start ==
    /\ pc = "start"
    /\ play_game_enter(secret)
    /\ UNCHANGED <<playing, thread_rng, min, max, menu_res, io, args, ret>>

NextGame ==
    \/ Game_play_start
    \/ \E raw \in Lines : Game_play_loop(raw)
    \/ Game_play_return
    \/ play_game_start
    \/ \E raw \in Lines : play_game_loop(raw)
    \/ play_game_return

SpecGame == InitGame /\ [][NextGame]_vars

----------------------------------------------------------------------------
(* Claims about the round *)

InRound == pc \in {"Game::play", "play_game", "returned"}

\* the line is a guess of the secret, is the quit command, ends the round,
\* is a guess of another number, is neither a guess nor the quit command
IsCorrect(l) == parse_u8(trim(l)) = ParseOk(secret)
IsQuit(l) == trim(l) = QUIT
IsTerminating(l) == IsCorrect(l) \/ IsQuit(l)
IsWrong(l) == parse_u8(trim(l)).ok /\ parse_u8(trim(l)).val # secret
IsInvalid(l) == ~parse_u8(trim(l)).ok /\ ~IsQuit(l)

\* the message a wrong guess is answered with
WrongMessage(l) ==
    LET g == parse_u8(trim(l)).val
    IN  Fmt("{}\n\n", to_string(g),
            IF g < secret THEN "{} is too low!" ELSE "{} is too high!")

\* the events of the i-th iteration of the round: the prompt, the marker, the
\* line read, the blank line and the answer
Iteration(rl, i) == SubSeq(rl, 5 * i - 4, 5 * i)

\* C3: a round returns Ok iff the last line it read is a guess of the secret;
\* the round ends in the iteration that reads the first terminating line (a
\* correct guess or quit), so after exactly n iterations when that line is
\* the n-th; every wrong guess before it was answered "too low" or "too
\* high"; and no line after a terminating line is read.
C3_WonIffCorrect ==
    InRound =>
        LET rl == RoundLog(io)
            L == LinesRead(rl)
            n == Len(L)
        IN  /\ Len(rl) = 5 * n
            /\ \A i \in 1..n : Iteration(rl, i)[3] = ReadLine(L[i])
            /\ \A i \in 1..n : IsTerminating(L[i]) => i = n /\ ~keep_guessing
            /\ ~keep_guessing =>
                    /\ n >= 1
                    /\ IsTerminating(L[n])
                    /\ res = "Ok" <=> IsCorrect(L[n])
            /\ pc = "returned" => ~keep_guessing /\ ret = res
            /\ \A i \in 1..n : IsWrong(L[i]) => Iteration(rl, i)[5] = WrongMessage(L[i])

\* Game::play with the secret 2 has read "1" and "2" and returned Ok
C3_Witness ==
    /\ pc = "returned"
    /\ secret = 2
    /\ LinesRead(io) = << <<"1">>, <<"2", "\n">> >>
    /\ ret = "Ok"
    /\ io[1] = Str("Guess a number...\n")
    /\ io[5] = Fmt("{}\n\n", <<"1">>, "{} is too low!")
    /\ io[10] = Str("Correct! ")

\* C4: when the trimmed line read is exactly "quit", the round writes
\* "Quitting...", ends in that iteration with the Quit error, reads no
\* further line, and has written no "Correct! ".
C4_QuitEndsRound ==
    InRound =>
        LET rl == RoundLog(io)
            L == LinesRead(rl)
            n == Len(L)
        IN  \A i \in 1..n : IsQuit(L[i]) =>
                /\ i = n
                /\ rl[Len(rl)] = Str("Quitting...\n")
                /\ ~keep_guessing
                /\ res = "Quit"
                /\ pc = "returned" => ret = "Quit"
                /\ \A j \in 1..Len(rl) : rl[j] # Str("Correct! ")

\* a round with the secret 1 has read "+50" and then "quit" and returned Quit
C4_Witness ==
    /\ pc = "returned"
    /\ secret = 1
    /\ LinesRead(io) = << <<"+", "5", "0">>, <<"q", "u", "i", "t", "\n">> >>
    /\ ret = "Quit"
    /\ io[Len(io)] = Str("Quitting...\n")

\* C5 (state part): a line that is neither a guess nor "quit" is answered
\* with the invalid-input message; when it is the last line read the round has
\* not ended and its result is not set; when a correct guess follows, the
\* round has ended with Ok.
C5_InvalidState ==
    InRound =>
        LET rl == RoundLog(io)
            L == LinesRead(rl)
            n == Len(L)
        IN  \A i \in 1..n : IsInvalid(L[i]) =>
                /\ Iteration(rl, i)[5] = Str(INVALID_INPUT)
                /\ i = n => keep_guessing /\ res = "Unknown" /\ pc # "returned"
                /\ (i < n /\ IsCorrect(L[n])) => ~keep_guessing /\ res = "Ok"

\* C5 (step part): the iteration that reads such a line changes neither the
\* result, nor the secret, nor the loop flag, nor the position.
C5_InvalidStep ==
    (/\ InRound
     /\ Len(io') = Len(io) + 5
     /\ IsInvalid(io'[Len(io')  - 2].line))
        => /\ res' = res
           /\ secret' = secret
           /\ keep_guessing' = keep_guessing
           /\ pc' = pc
           /\ io' = io \o << Str("Guess a number...\n"), Str("> "),
                             io'[Len(io') - 2], Str("\n"), Str(INVALID_INPUT) >>

\* C5: an input line that is neither a guess nor "quit" makes the loop write
\* the invalid-input message and go on: the round does not end, the result is
\* not set, the secret is unchanged, and a later correct guess ends the round
\* with Ok.
C5_InvalidInputRetries == [] C5_InvalidState /\ [][C5_InvalidStep]_vars

\* a round with the secret 1 has read "Quit" and then "1" and returned Ok
C5_Witness ==
    /\ pc = "returned"
    /\ secret = 1
    /\ LinesRead(io) = << <<"Q", "u", "i", "t">>, <<"1">> >>
    /\ io[5] = Str(INVALID_INPUT)
    /\ ret = "Ok"

\* C6: a round never returns Unknown: the loop ends only with the result set
\* to Ok or to Quit, and that is what is returned.
C6_NeverUnknown ==
    /\ (InRound /\ ~keep_guessing) => res \in {"Ok", "Quit"}
    /\ pc = "returned" => ret \in {"Ok", "Quit"}

\* play_game has returned after an invalid line and a wrong guess were read
\* and answered before the line that ended it
C6_Witness ==
    /\ pc = "returned"
    /\ ret \in {"Ok", "Quit"}
    /\ \E i \in 1..Len(io) : io[i] = Str(INVALID_INPUT)
    /\ io[1] = Str("Guess a number...\n")

----------------------------------------------------------------------------
(* The session: main (main.rs) *)

\* println!("{}", x)
println(x) == Fmt("{}\n", <<>>, x)

\* what main's match on the menu's result does: whether a round is played,
\* the value of `playing` after it, and what it prints
MatchOf(play, stay, out) == [play |-> play, playing |-> stay, out |-> out]

\* a match that leaves the loop on an invalid choice
main_match_err_exits(menu_result) ==
    IF menu_result.ok
    THEN IF menu_result.val = 1 THEN MatchOf(TRUE, TRUE, <<>>)
         ELSE IF menu_result.val = 2 THEN MatchOf(FALSE, FALSE, <<>>)
         ELSE MatchOf(FALSE, TRUE, <<println(INVALID_CHOICE)>>)
    ELSE MatchOf(FALSE, FALSE, <<println(menu_result.err)>>)

\* a match that plays a round on an invalid choice
main_match_err_plays(menu_result) ==
    IF menu_result.ok
    THEN IF menu_result.val = 1 THEN MatchOf(TRUE, TRUE, <<>>)
         ELSE IF menu_result.val = 2 THEN MatchOf(FALSE, FALSE, <<>>)
         ELSE MatchOf(FALSE, TRUE, <<println(INVALID_CHOICE)>>)
    ELSE MatchOf(TRUE, TRUE, <<println(menu_result.err)>>)

main_match(menu_result) ==
    IF menu_result.ok
    THEN IF menu_result.val = 1 THEN MatchOf(TRUE, TRUE, <<>>)
         ELSE IF menu_result.val = 2 THEN MatchOf(FALSE, FALSE, <<>>)
         ELSE MatchOf(FALSE, TRUE, <<println(INVALID_CHOICE)>>)
    ELSE MatchOf(FALSE, TRUE, <<println(menu_result.err)>>)

\* a report that prints "You won!" whatever the round returned
main_game_result_always_won(game_result, writer) ==
    write(write(writer, Str("You won!\n")), Str("Play again?\n"))

\* a report that greets again before "Play again?"
main_game_result_greets(game_result, writer) ==
    LET w1 == IF game_result # "Ok"
              THEN IF game_result = "Quit"
                   THEN write(writer, Str("You quit. "))
                   ELSE write(writer, Str("An unknown Error occurred."))
              ELSE write(writer, Str("You won!\n"))
        w2 == write(w1, Str("Welcome to the guessing game!\n\n"))
    IN  write(w2, Str("Play again?\n"))

\* what main writes when play_game has returned game_result
main_game_result(game_result, writer) ==
    LET w1 == IF game_result # "Ok"
              THEN IF game_result = "Quit"
                   THEN write(writer, Str("You quit. "))
                   ELSE write(writer, Str("An unknown Error occurred."))
              ELSE write(writer, Str("You won!\n"))
    IN  write(w1, Str("Play again?\n"))

Init ==
    /\ pc = "main"
    /\ io = <<>>
    /\ NoSession /\ NoGenerator /\ NoRound /\ NoCall

\* main up to its loop: the generator is made, the banner written
main_start ==
    /\ pc = "main"
    /\ io' = write(io, Str("Welcome to the guessing game!\n\n"))
    /\ playing' = TRUE
    /\ pc' = "menu"
    /\ UNCHANGED <<thread_rng, min, max, secret, res, keep_guessing, menu_res,
                   args, ret>>

\* a loop that unwraps the menu's result: an invalid choice panics
main_loop_unwraps(raw) ==
    /\ pc = "menu"
    /\ playing
    /\ LET m == main_menu(<<"play game", "exit">>, <<>>, raw)
           d == main_match(m.result)
       IN  /\ menu_res' = m.result
           /\ io' = IF m.result.ok THEN m.io \o d.out ELSE m.io
           /\ playing' = d.playing
           /\ IF ~m.result.ok
              THEN /\ pc' = "panic"
                   /\ UNCHANGED <<thread_rng, secret, res, keep_guessing>>
              ELSE IF d.play
              THEN /\ thread_rng' = get_rng(thread_rng)
                   /\ \E s \in gen_range(MIN_SECRET, MAX_SECRET) : play_game_enter(s)
              ELSE UNCHANGED <<pc, thread_rng, secret, res, keep_guessing>>
    /\ UNCHANGED <<min, max, args, ret>>

\* while playing { ... }: the menu, which blocks until a line is read, and the
\* match on its result, up to the first prompt of the round when one is played
main_loop(raw) ==
    /\ pc = "menu"
    /\ playing
    /\ LET m == main_menu(<<"play game", "exit">>, <<>>, raw)
           d == main_match(m.result)
       IN  /\ menu_res' = m.result
           /\ io' = m.io \o d.out
           /\ playing' = d.playing
           /\ IF d.play
              THEN /\ thread_rng' = get_rng(thread_rng)
                   /\ \E s \in gen_range(MIN_SECRET, MAX_SECRET) : play_game_enter(s)
              ELSE UNCHANGED <<pc, thread_rng, secret, res, keep_guessing>>
    /\ UNCHANGED <<min, max, args, ret>>

\* main after play_game has returned: the outcome and "Play again?"; the round
\* and its secret are gone
main_after_game ==
    /\ pc = "returned"
    /\ io' = main_game_result(ret, io)
    /\ pc' = "menu"
    /\ secret' = -1
    /\ res' = "None"
    /\ keep_guessing' = FALSE
    /\ ret' = Idle
    /\ UNCHANGED <<playing, thread_rng, min, max, menu_res, args>>

\* the loop ends: main returns
main_exit ==
    /\ pc = "menu"
    /\ ~playing
    /\ pc' = "exit"
    /\ UNCHANGED <<playing, thread_rng, min, max, secret, res, keep_guessing,
                   menu_res, io, args, ret>>

Next ==
    \/ main_start
    \/ \E raw \in Lines : main_loop(raw)
    \/ \E raw \in Lines : play_game_loop(raw)
    \/ play_game_return
    \/ main_after_game
    \/ main_exit

Spec == Init /\ [][Next]_vars

----------------------------------------------------------------------------
(* SpecRandom: NumberGenerator (random.rs) made with the default range and *)
(* with every min and max up to MaxRange                                   *)

InitRandom ==
    /\ pc = "NumberGenerator::new"
    /\ thread_rng = "None"
    /\ \E range \in ((0..MaxRange) \X (0..MaxRange)) \cup {<<MIN_SECRET, MAX_SECRET>>} :
            min = range[1] /\ max = range[2]
    /\ io = <<>>
    /\ NoSession /\ NoRound /\ NoCall

\* gen_secret with min < max
NumberGenerator_gen_secret ==
    /\ pc \in {"NumberGenerator::new", "gen_secret"}
    /\ min < max
    /\ thread_rng' = get_rng(thread_rng)
    /\ secret' \in gen_range(min, max)
    /\ pc' = "gen_secret"
    /\ UNCHANGED <<playing, min, max, res, keep_guessing, menu_res, io, args, ret>>

\* gen_secret with min >= max: gen_range panics
NumberGenerator_gen_secret_panic ==
    /\ pc \in {"NumberGenerator::new", "gen_secret"}
    /\ min >= max
    /\ thread_rng' = get_rng(thread_rng)
    /\ pc' = "panic"
    /\ UNCHANGED <<playing, min, max, secret, res, keep_guessing, menu_res, io,
                   args, ret>>

NextRandom == NumberGenerator_gen_secret \/ NumberGenerator_gen_secret_panic

SpecRandom == InitRandom /\ [][NextRandom]_vars

----------------------------------------------------------------------------
(* Claims about the session and the generator *)

\* the line read by the menu of the current pass of main's loop
MenuLine == LinesRead(io)[1]

\* C7: the session driver's loop ends only by the menu returning 2: while a
\* round runs or has returned, whatever was typed in it, `playing` is true;
\* after an invalid choice it is true; it is false exactly when the menu has
\* returned 2, and then no round was started and main leaves its loop.
C7_ExitOnlyByChoice2 ==
    pc # "main" =>
        /\ playing <=> menu_res # MenuOk(2)
        /\ pc \in {"play_game", "returned"} => playing
        /\ menu_res = MenuOk(2) =>
                /\ pc \in {"menu", "exit"}
                /\ Writes(trim(MenuLine), 2)
                /\ RoundLog(io) = <<>>
                /\ res = "None" /\ secret = -1
        /\ pc = "exit" => ~playing

\* main has left its loop after the menu read "2" and returned 2, the
\* generator having served an earlier round
C7_Witness ==
    /\ pc = "exit"
    /\ menu_res = MenuOk(2)
    /\ MenuLine = <<"2", "\n">>
    /\ thread_rng = "Some"

\* C8: when the menu returns the error, main prints it and nothing else
\* changes: playing stays true, no round is started, no secret generated, and
\* the menu is presented again.
C8_InvalidChoiceStep ==
    (pc = "menu" /\ playing /\ ~menu_res'.ok)
        => /\ io'[Len(io')] = println(INVALID_CHOICE)
           /\ RoundLog(io') = <<>>
           /\ playing'
           /\ pc' = "menu"
           /\ UNCHANGED <<thread_rng, secret, res, keep_guessing>>

C8_InvalidChoiceContinues == [][C8_InvalidChoiceStep]_vars

\* the menu has read "-1", main has printed the error and is at the menu
\* again, still playing
C8_Witness ==
    /\ pc = "menu"
    /\ playing
    /\ menu_res = MenuErr(INVALID_CHOICE)
    /\ MenuLine = <<"-", "1">>
    /\ io[Len(io)] = println(INVALID_CHOICE)

\* C9: when a round has returned, main writes "You quit. " iff it returned
\* Quit and "You won!\n" iff it returned Ok, then "Play again?\n", and is at
\* the menu again, still playing.
C9_OutcomeStep ==
    pc = "returned"
        => /\ \/ ret = "Quit" /\ io' = io \o <<Str("You quit. "), Str("Play again?\n")>>
              \/ ret = "Ok" /\ io' = io \o <<Str("You won!\n"), Str("Play again?\n")>>
           /\ pc' = "menu"
           /\ playing'

C9_OutcomeReported == [][C9_OutcomeStep]_vars

\* a round was quit and main is at the menu again, having written
\* "Quitting...", "You quit. " and "Play again?"
C9_Witness ==
    /\ pc = "menu"
    /\ playing
    /\ Len(io) >= 3
    /\ io[Len(io) - 2] = Str("Quitting...\n")
    /\ io[Len(io) - 1] = Str("You quit. ")
    /\ io[Len(io)] = Str("Play again?\n")

\* C10: every secret the generator produces lies in min <= v < max, so with
\* the default range in 0 <= v < 100, and max itself is never a secret.
C10_SecretInRange ==
    pc = "gen_secret" =>
        /\ min <= secret /\ secret < max
        /\ (min = MIN_SECRET /\ max = MAX_SECRET) => (0 <= secret /\ secret < 100)

\* the default generator has produced 99
C10_Witness ==
    /\ pc = "gen_secret"
    /\ min = MIN_SECRET /\ max = MAX_SECRET
    /\ thread_rng = "Some"
    /\ secret = 99

----------------------------------------------------------------------------
(* SpecTwice: the menu, and the evaluator, called twice with the same       *)
(* arguments; the second call of the menu writes to the writer the first     *)
(* call has written to, as the calls of main's loop do                       *)

InitTwice ==
    /\ \/ pc = "menu" /\ args \in [choices : ChoiceLists, line : MenuLines]
       \/ pc = "evaluate" /\ args \in [actual : 0..U8_MAX, expected : 0..U8_MAX]
    /\ ret = <<>>
    /\ io = <<>>
    /\ NoSession /\ NoGenerator /\ NoRound

MenuFirst ==
    /\ pc = "menu"
    /\ LET m == menu(args.choices, io, args.line)
       IN  ret' = <<m.result>> /\ io' = m.io
    /\ pc' = "menu again"
    /\ UNCHANGED <<playing, thread_rng, min, max, secret, res, keep_guessing,
                   menu_res, args>>

MenuSecond ==
    /\ pc = "menu again"
    /\ LET m == menu(args.choices, io, args.line)
       IN  ret' = Append(ret, m.result) /\ io' = m.io
    /\ pc' = "menu twice"
    /\ UNCHANGED <<playing, thread_rng, min, max, secret, res, keep_guessing,
                   menu_res, args>>

EvaluateFirst ==
    /\ pc = "evaluate"
    /\ ret' = <<Game_evaluate(args.actual, args.expected)>>
    /\ pc' = "evaluate again"
    /\ UNCHANGED <<playing, thread_rng, min, max, secret, res, keep_guessing,
                   menu_res, io, args>>

EvaluateSecond ==
    /\ pc = "evaluate again"
    /\ ret' = Append(ret, Game_evaluate(args.actual, args.expected))
    /\ pc' = "evaluated twice"
    /\ UNCHANGED <<playing, thread_rng, min, max, secret, res, keep_guessing,
                   menu_res, io, args>>

NextTwice == MenuFirst \/ MenuSecond \/ EvaluateFirst \/ EvaluateSecond

SpecTwice == InitTwice /\ [][NextTwice]_vars

----------------------------------------------------------------------------
(* Claims about what is written, and in which order *)

\* C12: the menu writes the header first, then one line per option, in the
\* order given, as "{index}) {label}" with the index counted from 1 (the
\* number written reads back as the index), then the "> " marker, and only
\* then reads a line, exactly one.
C12_MenuOrder ==
    pc \in {"menu.rs", "main.rs"} =>
        LET k == Len(args.choices)
        IN  /\ Len(io) = k + 4
            /\ io[1] = Str("\nPlease choose from the following...\n")
            /\ \A i \in 1..k :
                    /\ io[1 + i].op = "write"
                    /\ io[1 + i].fmt = "{}) {}\n"
                    /\ parse_usize(io[1 + i].num) = ParseOk(i)
                    /\ io[1 + i].text = args.choices[i]
            /\ io[k + 2] = Str("> ")
            /\ io[k + 3] = ReadLine(args.line)
            /\ LinesRead(io) = <<args.line>>
            /\ io[k + 4] = Str("\n")

\* menu.rs's menu has written the header, "1) play game", "2) exit" and the
\* marker, and then read the line "x"
C12_Witness ==
    /\ pc = "menu.rs"
    /\ args.choices = <<"play game", "exit">>
    /\ args.line = <<"x">>
    /\ io[2] = Fmt("{}) {}\n", <<"1">>, "play game")
    /\ io[3] = Fmt("{}) {}\n", <<"2">>, "exit")
    /\ io[4] = Str("> ")
    /\ io[5] = ReadLine(<<"x">>)

----------------------------------------------------------------------------
(* SpecGameLive: one round that returns as soon as its loop has ended       *)

\* the secrets of the rounds followed to their end: the bounds of a guess, of
\* the range, and the numbers the lines of Lines spell
LiveSecrets == {0, 1, 2, 50, MAX_SECRET, U8_MAX}

InitGameLive ==
    /\ InitGame
    /\ secret \in LiveSecrets

\* the loop condition is tested again and the function returns
RoundReturns == Game_play_return \/ play_game_return

SpecGameLive ==
    /\ InitGameLive
    /\ [][NextGame]_vars
    /\ WF_vars(RoundReturns)

InLoop == pc \in {"Game::play", "play_game"}

\* as long as no line read is a guess of the secret or the quit command, the
\* round is still waiting for a guess, whatever the number of lines read;
\* the round has ended only if such a line was read
C13_State ==
    LET L == LinesRead(RoundLog(io))
    IN  /\ InLoop =>
                /\ keep_guessing <=> \A i \in 1..Len(L) : ~IsTerminating(L[i])
                /\ keep_guessing => res = "Unknown"
        /\ pc = "returned" =>
                /\ \E i \in 1..Len(L) : IsTerminating(L[i])
                /\ ret \in {"Ok", "Quit"}

\* the only step of a round that is waiting for a guess is a prompt and a read
C13_Step ==
    InLoop /\ keep_guessing =>
        /\ pc' = pc
        /\ Len(io') = Len(io) + 5
        /\ io'[Len(io) + 1] = Str("Guess a number...\n")
        /\ io'[Len(io) + 2] = Str("> ")
        /\ io'[Len(io) + 3].op = "read"

\* the user has typed the secret or "quit"
C13_TerminatingLineRead ==
    /\ InRound
    /\ \E i \in 1..Len(LinesRead(RoundLog(io))) :
            IsTerminating(LinesRead(RoundLog(io))[i])

\* C13: the loop has no iteration limit: after any number of wrong guesses
\* and invalid inputs the round is still waiting for a guess; the round ends
\* only if a line read is the secret or "quit", and, the user eventually
\* typing such a line, the round eventually returns Ok or Quit.
C13_RoundEndsIffTerminatingLine ==
    /\ [] C13_State
    /\ [][C13_Step]_vars
    /\ <>C13_TerminatingLineRead => <>(pc = "returned" /\ ret \in {"Ok", "Quit"})

\* play_game with the secret 50 has read an invalid line and a wrong guess,
\* MaxReads lines that keep the round going, and then the guess "+50"
C13_Witness ==
    /\ pc = "returned"
    /\ secret = 50
    /\ LinesRead(io) = << <<"-", "1">>, <<"2", "\n">>, <<"+", "5", "0">> >>
    /\ io[1] = Str("Guess a number...\n")
    /\ io[10] = Fmt("{}\n\n", <<"2">>, "{} is too low!")
    /\ ret = "Ok"

----------------------------------------------------------------------------
(* Claims about a wrong guess, the secret and the guesses accepted *)

\* C14 (state part): a guess of another number is answered with the "too
\* low" or "too high" message, followed by a blank line; when it is the last
\* line read the round is still waiting for a guess, with no result; when
\* another line was read after it, that iteration began with the prompt.
C14_WrongState ==
    InRound =>
        LET rl == RoundLog(io)
            L == LinesRead(rl)
            n == Len(L)
        IN  \A i \in 1..n : IsWrong(L[i]) =>
                /\ Iteration(rl, i)[5] = WrongMessage(L[i])
                /\ Iteration(rl, i)[5].fmt = "{}\n\n"
                /\ Iteration(rl, i)[5].text \in {"{} is too low!", "{} is too high!"}
                /\ i = n => keep_guessing /\ res = "Unknown" /\ pc # "returned"
                /\ i < n => Iteration(rl, i + 1)[1] = Str("Guess a number...\n")

\* C14 (step part): the iteration that reads a wrong guess changes neither
\* the result, nor the secret, nor the loop flag, nor the position.
C14_WrongStep ==
    (/\ InRound
     /\ Len(io') = Len(io) + 5
     /\ IsWrong(io'[Len(io') - 2].line))
        => /\ res' = res
           /\ res' \notin {"Ok", "Quit"}
           /\ secret' = secret
           /\ keep_guessing' /\ keep_guessing
           /\ pc' = pc
           /\ io' = io \o << Str("Guess a number...\n"), Str("> "),
                             io'[Len(io') - 2], Str("\n"),
                             WrongMessage(io'[Len(io') - 2].line) >>

\* C14: a numeric guess that differs from the secret is answered with the
\* formatted "too low"/"too high" message and a blank line, and the round
\* goes on: keep_guessing stays true, the result is set neither to Ok nor to
\* Quit, the secret is unchanged, and the next iteration prompts again.
C14_WrongGuessRetries == [] C14_WrongState /\ [][C14_WrongStep]_vars

\* Game::play with the secret 2 has answered "1" with too low and "255" with
\* too high and is still waiting for a guess
C14_Witness ==
    /\ pc = "Game::play"
    /\ secret = 2
    /\ keep_guessing
    /\ res = "Unknown"
    /\ LinesRead(io) = << <<"1">>, <<"2", "5", "5">> >>
    /\ io[5] = Fmt("{}\n\n", <<"1">>, "{} is too low!")
    /\ io[6] = Str("Guess a number...\n")
    /\ io[10] = Fmt("{}\n\n", <<"2", "5", "5">>, "{} is too high!")

\* what a round with the secret s answers to the line l
AnswerTo(l, s) ==
    LET g == parse_u8(trim(l))
    IN  IF g.ok
        THEN IF g.val = s THEN Str("Correct! ")
             ELSE Fmt("{}\n\n", to_string(g.val),
                      IF g.val < s THEN "{} is too low!" ELSE "{} is too high!")
        ELSE IF trim(l) = QUIT THEN Str("Quitting...\n") ELSE Str(INVALID_INPUT)

\* C15 (state part): outside a round there is no secret; in a round the
\* secret is a number of the provider's range, and every line read in the
\* round was answered by comparing it against that one secret.
C15_SecretState ==
    /\ pc \in {"main", "menu", "exit"} => secret = -1
    /\ pc \in {"play_game", "returned"} =>
            /\ secret \in MIN_SECRET..(MAX_SECRET - 1)
            /\ thread_rng = "Some"
            /\ LET rl == RoundLog(io)
                   L == LinesRead(rl)
               IN  \A i \in 1..Len(L) : Iteration(rl, i)[5] = AnswerTo(L[i], secret)

\* C15 (step part): the secret changes in two steps only: the step from the
\* menu into a round, which obtains it from the provider before any prompt of
\* the round, and the step after the round has returned, which drops it.
C15_SecretStep ==
    /\ (pc = "menu" /\ pc' = "play_game") =>
            /\ secret = -1
            /\ secret' \in gen_range(MIN_SECRET, MAX_SECRET)
            /\ RoundLog(io') = <<>>
            /\ \A i \in 1..Len(io') : io'[i] # Str("Guess a number...\n")
    /\ pc = "play_game" => secret' = secret
    /\ pc = "returned" => secret' = -1 /\ pc' = "menu"
    /\ secret' # secret =>
            \/ pc = "menu" /\ pc' = "play_game"
            \/ pc = "returned"

\* C15: the secret is obtained once per round, at round start before the
\* first prompt, and does not change while the round runs: every guess of a
\* round is compared against the same secret, and every round started from
\* the menu obtains its secret from the provider.
C15_SecretOncePerRound == [] C15_SecretState /\ [][C15_SecretStep]_vars

\* a round started from the menu got the secret 7 and has compared the
\* guesses "100" and "1" against it
C15_Witness ==
    /\ pc = "play_game"
    /\ secret = 7
    /\ menu_res = MenuOk(1)
    /\ LinesRead(RoundLog(io)) = << <<"1", "0", "0", "\n">>, <<"1">> >>
    /\ \E i \in 1..Len(io) : io[i] = Fmt("{}\n\n", <<"1", "0", "0">>, "{} is too high!")
    /\ io[Len(io)] = Fmt("{}\n\n", <<"1">>, "{} is too low!")

\* the line spells an integer belonging to [0,100], the range the
\* invalid-input message names
IsGuessInRange(l) ==
    /\ parse_u8(trim(l)).ok
    /\ parse_u8(trim(l)).val \in MIN_SECRET..MAX_SECRET

\* C16: a line that is not "quit" and is not an integer belonging to [0,100]
\* is answered with the invalid-input message and is not compared against the
\* secret; every integer belonging to [0,100] is compared against the secret.
\* The code parses the line as a u8, so 101..255 are compared as well.
C16_GuessRange ==
    InRound =>
        LET rl == RoundLog(io)
            L == LinesRead(rl)
        IN  \A i \in 1..Len(L) :
                /\ (~IsQuit(L[i]) /\ ~IsGuessInRange(L[i])) =>
                        Iteration(rl, i)[5] = Str(INVALID_INPUT)
                /\ IsGuessInRange(L[i]) =>
                        /\ Iteration(rl, i)[5] = AnswerTo(L[i], secret)
                        /\ Iteration(rl, i)[5] # Str(INVALID_INPUT)

\* the event is one of the five outcome messages of an iteration
IsOutcome(e) ==
    /\ e.op = "write"
    /\ \/ e \in {Str("Correct! "), Str("Quitting...\n"), Str(INVALID_INPUT)}
       \/ /\ e.fmt = "{}\n\n"
          /\ e.text \in {"{} is too low!", "{} is too high!"}

\* C18: every iteration of the game loop is this exchange, in this order:
\* "Guess a number...\n" is written, then the "> " marker, then one line is
\* read, then a blank line is written, then one outcome message (too low, too
\* high, "Correct! ", "Quitting..." or the invalid-input message); no outcome
\* message is written before the line of its iteration has been read.
C18_IterationOrder ==
    InRound =>
        LET rl == RoundLog(io)
            L == LinesRead(rl)
            n == Len(L)
        IN  /\ Len(rl) = 5 * n
            /\ \A i \in 1..n :
                    /\ Iteration(rl, i)[1] = Str("Guess a number...\n")
                    /\ Iteration(rl, i)[2] = Str("> ")
                    /\ Iteration(rl, i)[3] = ReadLine(L[i])
                    /\ Iteration(rl, i)[4] = Str("\n")
                    /\ IsOutcome(Iteration(rl, i)[5])
                    /\ Iteration(rl, i)[5] = AnswerTo(L[i], secret)
            /\ \A j \in 1..Len(rl) :
                    IsOutcome(rl[j]) =>
                        /\ j % 5 = 0
                        /\ Len(LinesRead(SubSeq(rl, 1, j))) = j \div 5

\* play_game has written the prompt and the marker, read "256", written the
\* blank line and the invalid-input message, and then the same for "quit"
C18_Witness ==
    /\ pc = "play_game"
    /\ ~keep_guessing
    /\ io = << Str("Guess a number...\n"), Str("> "), ReadLine(<<"2", "5", "6">>),
               Str("\n"), Str(INVALID_INPUT),
               Str("Guess a number...\n"), Str("> "),
               ReadLine(<<"q", "u", "i", "t", "\n">>),
               Str("\n"), Str("Quitting...\n") >>

----------------------------------------------------------------------------
(* Claims about the session's menu choice, its I/O and its banner *)

\* C17: in the session, the value of a successful menu call over the options
\* "play game" and "exit" is 1 or 2, the number the line read spells, so
\* the `_` arm of the match on the choice is never taken: after a successful
\* menu call no "Invalid choice!" is printed.
C17_ChoiceIs1Or2 ==
    menu_res.ok =>
        /\ menu_res.val \in {1, 2}
        /\ parse_usize(trim(MenuLine)) = ParseOk(menu_res.val)
        /\ main_match(menu_res).out = <<>>
        /\ \A i \in 1..Len(io) : io[i] # println(INVALID_CHOICE)

\* the menu has returned Ok(1) for the line "1" and the round has begun
C17_Witness ==
    /\ pc = "play_game"
    /\ menu_res = MenuOk(1)
    /\ MenuLine = <<"1">>
    /\ Len(io) = 6
    /\ keep_guessing

\* the events a step writes or reads: the log starts again at each pass of
\* main's loop, and grows in every other step
NewEvents ==
    IF io' = io THEN <<>>
    ELSE IF pc = "menu" THEN io'
    ELSE SubSeq(io', Len(io) + 1, Len(io'))

\* the first step of main writes the banner, once, and nothing else; no later
\* step writes it, and main never goes back to its beginning
C20_BannerStep ==
    /\ pc = "main" =>
            /\ io' = <<Str("Welcome to the guessing game!\n\n")>>
            /\ pc' = "menu"
    /\ pc # "main" =>
            /\ pc' # "main"
            /\ \A i \in 1..Len(NewEvents) :
                    NewEvents[i] # Str("Welcome to the guessing game!\n\n")

\* C20: the welcome banner is printed exactly once per run, by the first
\* step of main, before anything of the first menu is written, and never
\* again: not after a round's outcome, an invalid menu choice or a later menu.
C20_BannerOnce ==
    /\ [](pc = "main" => io = <<>>)
    /\ [][C20_BannerStep]_vars

\* a round was played and quit, its outcome and "Play again?" are written,
\* and the banner is not among what was written since the menu
C20_Witness ==
    /\ pc = "menu"
    /\ playing
    /\ Len(io) > 2
    /\ io[Len(io) - 1] = Str("You quit. ")
    /\ io[Len(io)] = Str("Play again?\n")
    /\ \A i \in 1..Len(io) : io[i] # Str("Welcome to the guessing game!\n\n")

----------------------------------------------------------------------------
(* SpecIO: the session over streams whose reads and writes can fail. write  *)
(* unwraps the results of write_fmt and flush, prompt the result of         *)
(* read_line, println! panics when stdout fails: each is a panic.           *)

\* the read or write that returned Err
IoError(op) == [op |-> "failed", fmt |-> "", text |-> op, num |-> <<>>, line |-> <<>>]

\* a step whose reads and writes would have been the events `events` panics
\* at one of them: the ones before it are done, the process unwinds and its
\* variables are dropped. The log of a panicked run holds the events of the
\* step that panicked.
unwrap_panics(events) ==
    /\ \E k \in 1..Len(events) :
            io' = SubSeq(events, 1, k - 1) \o <<IoError(events[k].op)>>
    /\ pc' = "panic"
    /\ playing' = FALSE
    /\ menu_res' = NoMenuResult
    /\ secret' = -1
    /\ res' = "None"
    /\ keep_guessing' = FALSE
    /\ ret' = Idle
    /\ UNCHANGED <<thread_rng, min, max, args>>

main_start_panics ==
    /\ pc = "main"
    /\ unwrap_panics(write(io, Str("Welcome to the guessing game!\n\n")))

main_loop_panics(raw) ==
    /\ pc = "menu"
    /\ playing
    /\ LET m == main_menu(<<"play game", "exit">>, <<>>, raw)
           d == main_match(m.result)
       IN  unwrap_panics(m.io \o d.out)

play_game_loop_panics(raw) ==
    /\ pc = "play_game"
    /\ keep_guessing
    /\ \/ Len(LinesRead(RoundLog(io))) < MaxReads
       \/ ~play_game_body(secret, res, io, raw).keep_guessing
    /\ unwrap_panics(play_game_body(secret, res, <<>>, raw).io)

main_after_game_panics ==
    /\ pc = "returned"
    /\ unwrap_panics(main_game_result(ret, <<>>))

NextIO ==
    \/ Next
    \/ main_start_panics
    \/ \E raw \in Lines : main_loop_panics(raw)
    \/ \E raw \in Lines : play_game_loop_panics(raw)
    \/ main_after_game_panics

SpecIO == Init /\ [][NextIO]_vars

\* the run has panicked only if its last read or write failed, and a run
\* that has not panicked had no failing read or write
C19_State ==
    /\ pc = "panic" => io # <<>> /\ io[Len(io)].op = "failed"
    /\ pc # "panic" => \A i \in 1..Len(io) : io[i].op # "failed"

\* a step whose reads and writes all succeed handles what it read where it
\* read it and the session goes on: a menu line that is not a choice is
\* answered "Invalid choice!" and the menu comes again; a guess that is not
\* a number is answered with the invalid-input message and the round goes on;
\* "quit" becomes the round's result, which main reports before the menu
\* comes again
C19_Step ==
    (\A i \in 1..Len(io') : io'[i].op # "failed") =>
        /\ pc' # "panic"
        /\ (pc = "menu" /\ playing /\ ~menu_res'.ok) =>
                /\ pc' = "menu"
                /\ playing'
                /\ io'[Len(io')] = println(INVALID_CHOICE)
        /\ (pc = "play_game" /\ Len(io') = Len(io) + 5) =>
                LET l == io'[Len(io') - 2].line
                IN  /\ IsInvalid(l) =>
                        /\ pc' = "play_game"
                        /\ keep_guessing'
                        /\ playing'
                        /\ io'[Len(io')] = Str(INVALID_INPUT)
                    /\ IsQuit(l) =>
                        /\ pc' = "play_game"
                        /\ res' = "Quit"
                        /\ playing'
        /\ (pc = "returned" /\ ret = "Quit") =>
                /\ pc' = "menu"
                /\ playing'

\* C19: a malformed guess, a malformed or out-of-range menu input and the
\* quit command never end the program abruptly: each is handled where it
\* occurs and the session goes on; the program panics only when a read or a
\* write on its streams fails.
C19_PanicOnlyOnIoFailure == [] C19_State /\ [][C19_Step]_vars

\* in a round, the prompt and the marker were written and the read failed
C19_Witness ==
    /\ pc = "panic"
    /\ io = << Str("Guess a number...\n"), Str("> "), IoError("read") >>

----------------------------------------------------------------------------
(* SpecWin: one round, of Game::play or of play_game, for every secret the  *)
(* generator returns with the default range, whose user can type the secret *)

\* the secret in decimal, as a terminal hands it over: with its line ending
WinningLine == to_string(secret) \o <<"\n">>

\* lines that are not the secret of any round of SpecWin, and the secret
WinLines ==
    { <<"2", "5", "6">>, <<"1", "0", "0", "\n">>, <<"q", "u", "i", "t">>, <<>> }
        \cup {WinningLine}

InitWin ==
    /\ pc = "start"
    /\ secret \in gen_range(MIN_SECRET, MAX_SECRET)
    /\ res = "None"
    /\ keep_guessing = FALSE
    /\ io = <<>>
    /\ NoSession /\ NoGenerator /\ NoCall

NextWin ==
    \/ Game_play_start
    \/ \E raw \in WinLines : Game_play_loop(raw)
    \/ Game_play_return
    \/ play_game_start
    \/ \E raw \in WinLines : play_game_loop(raw)
    \/ play_game_return

SpecWin == InitWin /\ [][NextWin]_vars

\* C21: every round is winnable: every secret the generator returns with the
\* default range (0 <= secret < 100) is a value a guess can parse to
\* (0..255), so in every state in which the round waits for a guess, the line
\* that spells the secret ends the round with Ok; and every round in which
\* that line was read has ended with Ok.
C21_EveryRoundWinnable ==
    InRound =>
        LET L == LinesRead(RoundLog(io))
            n == Len(L)
            b == IF pc = "Game::play"
                 THEN Game_play_body(secret, res, io, WinningLine)
                 ELSE play_game_body(secret, res, io, WinningLine)
        IN  /\ secret \in MIN_SECRET..(MAX_SECRET - 1)
            /\ secret \in 0..U8_MAX
            /\ parse_u8(trim(WinningLine)) = ParseOk(secret)
            /\ (InLoop /\ keep_guessing) =>
                    /\ ~b.keep_guessing
                    /\ b.res = "Ok"
                    /\ b.io = io \o << Str("Guess a number...\n"), Str("> "),
                                      ReadLine(WinningLine), Str("\n"),
                                      Str("Correct! ") >>
            /\ (n >= 1 /\ L[n] = WinningLine) =>
                    /\ ~keep_guessing
                    /\ res = "Ok"
                    /\ io[Len(io)] = Str("Correct! ")
            /\ (pc = "returned" /\ L[n] = WinningLine) => ret = "Ok"

\* a round with the secret 99, the largest, has read "256" and an empty line
\* and was then won with the line "99\n"
C21_Witness ==
    /\ pc = "returned"
    /\ secret = 99
    /\ LinesRead(io) = << <<"2", "5", "6">>, <<>>, <<"9", "9", "\n">> >>
    /\ io[Len(io)] = Str("Correct! ")
    /\ ret = "Ok"

----------------------------------------------------------------------------
(* SpecBoth: Game::play and play_game run side by side with the same secret *)
(* over readers that hold the same lines. The run of Game::play is kept in  *)
(* args.game, the run of play_game in the variables of the round.           *)

\* what the readers hold: up to MaxReads lines
RECURSIVE InputsUpTo(_)
InputsUpTo(n) ==
    IF n = 0 THEN {<<>>}
    ELSE InputsUpTo(n - 1)
            \cup {Append(i, l) : i \in {j \in InputsUpTo(n - 1) : Len(j) = n - 1},
                                 l \in Lines}

\* the line read_line hands over after the reads of the log w: the next line
\* of the reader, the empty line at its end (read_line returns Ok(0))
NextLine(w) ==
    LET k == Len(LinesRead(w)) + 1
    IN  IF k <= Len(args.input) THEN args.input[k] ELSE <<>>

InitBoth ==
    /\ pc = "start"
    /\ secret \in LiveSecrets
    /\ res = "None"
    /\ keep_guessing = FALSE
    /\ io = <<>>
    /\ ret = Idle
    /\ args \in [input : InputsUpTo(MaxReads),
                 game : {[pc |-> "start", keep_guessing |-> FALSE, res |-> "None",
                          io |-> <<>>, ret |-> "None"]}]
    /\ NoSession /\ NoGenerator

\* Game::play: let mut res = Err(Unknown); let mut keep_guessing = true
Both_Game_play_start ==
    /\ args.game.pc = "start"
    /\ args' = [args EXCEPT !.game.pc = "Game::play",
                            !.game.keep_guessing = TRUE,
                            !.game.res = "Unknown"]
    /\ UNCHANGED <<pc, playing, thread_rng, min, max, secret, res, keep_guessing,
                   menu_res, io, ret>>

\* one iteration of the loop of Game::play over its reader
Both_Game_play_loop ==
    /\ args.game.pc = "Game::play"
    /\ args.game.keep_guessing
    /\ LET b == Game_play_body(secret, args.game.res, args.game.io,
                               NextLine(args.game.io))
       IN  /\ \/ Len(LinesRead(args.game.io)) < MaxReads
              \/ ~b.keep_guessing
           /\ args' = [args EXCEPT !.game.keep_guessing = b.keep_guessing,
                                   !.game.res = b.res,
                                   !.game.io = b.io]
    /\ UNCHANGED <<pc, playing, thread_rng, min, max, secret, res, keep_guessing,
                   menu_res, io, ret>>

\* Game::play returns res
Both_Game_play_return ==
    /\ args.game.pc = "Game::play"
    /\ ~args.game.keep_guessing
    /\ args' = [args EXCEPT !.game.pc = "returned", !.game.ret = args.game.res]
    /\ UNCHANGED <<pc, playing, thread_rng, min, max, secret, res, keep_guessing,
                   menu_res, io, ret>>

NextBoth ==
    \/ Both_Game_play_start
    \/ Both_Game_play_loop
    \/ Both_Game_play_return
    \/ play_game_start
    \/ play_game_loop(NextLine(io))
    \/ play_game_return

SpecBoth == InitBoth /\ [][NextBoth]_vars

\* C22: Game::play and play_game are equivalent: with the same secret and
\* the same lines in their readers, whenever both have read the same number
\* of lines they have written and read the same events and are in the same
\* state of the loop; neither reads a line after the other has ended its
\* loop on an earlier one; and when both have returned, they have consumed
\* the same number of lines and returned the same result, Ok or Quit.
C22_RoundsEquivalent ==
    LET g == args.game
        nA == Len(LinesRead(g.io))
        nB == Len(LinesRead(io))
    IN  (g.pc # "start" /\ pc # "start") =>
            /\ nA = nB =>
                    /\ g.io = io
                    /\ g.res = res
                    /\ g.keep_guessing = keep_guessing
            /\ ~g.keep_guessing => nB <= nA
            /\ ~keep_guessing => nA <= nB
            /\ (g.pc = "returned" /\ pc = "returned") =>
                    /\ nA = nB
                    /\ g.ret = ret
                    /\ ret \in {"Ok", "Quit"}

\* with the secret 2 and the lines "255" and "quit" both rounds have written
\* "255 is too high!" and "Quitting...", read two lines and returned Quit
C22_Witness ==
    /\ pc = "returned"
    /\ args.game.pc = "returned"
    /\ secret = 2
    /\ args.input = << <<"2", "5", "5">>, <<"q", "u", "i", "t", "\n">> >>
    /\ io[5] = Fmt("{}\n\n", <<"2", "5", "5">>, "{} is too high!")
    /\ args.game.io = io
    /\ Len(io) = 10
    /\ ret = "Quit"
    /\ args.game.ret = "Quit"

----------------------------------------------------------------------------
(* SpecLazy: NumberGenerator (random.rs and main.rs) called up to MaxCalls  *)
(* times; args counts the calls of gen_secret and of rand::thread_rng()     *)

\* the calls of init_rng, and so of rand::thread_rng(), that one get_rng
\* makes: none in the Some arm of its match, one in the None arm
init_rng_calls(self_thread_rng) ==
    IF self_thread_rng = "Some" THEN 0 ELSE 1

InitLazy ==
    /\ pc = "NumberGenerator::new"
    /\ thread_rng = "None"
    /\ \E range \in ((0..MaxRange) \X (0..MaxRange)) \cup {<<MIN_SECRET, MAX_SECRET>>} :
            min = range[1] /\ max = range[2]
    /\ args = [calls |-> 0, inits |-> 0]
    /\ ret = Idle
    /\ io = <<>>
    /\ NoSession /\ NoRound

\* gen_secret: get_rng, then gen_range with min < max
Lazy_gen_secret ==
    /\ pc \in {"NumberGenerator::new", "gen_secret"}
    /\ args.calls < MaxCalls
    /\ min < max
    /\ thread_rng' = get_rng(thread_rng)
    /\ args' = [calls |-> args.calls + 1,
                inits |-> args.inits + init_rng_calls(thread_rng)]
    /\ secret' \in gen_range(min, max)
    /\ pc' = "gen_secret"
    /\ UNCHANGED <<playing, min, max, res, keep_guessing, menu_res, io, ret>>

\* gen_secret: get_rng, then gen_range with min >= max, which panics
Lazy_gen_secret_panic ==
    /\ pc \in {"NumberGenerator::new", "gen_secret"}
    /\ args.calls < MaxCalls
    /\ min >= max
    /\ thread_rng' = get_rng(thread_rng)
    /\ args' = [calls |-> args.calls + 1,
                inits |-> args.inits + init_rng_calls(thread_rng)]
    /\ pc' = "panic"
    /\ UNCHANGED <<playing, min, max, secret, res, keep_guessing, menu_res, io, ret>>

NextLazy == Lazy_gen_secret \/ Lazy_gen_secret_panic

SpecLazy == InitLazy /\ [][NextLazy]_vars

\* the random source is absent until the first call of gen_secret and
\* present after it; it was created once
C23_State ==
    /\ args.calls = 0 => thread_rng = "None" /\ args.inits = 0
    /\ args.calls >= 1 => thread_rng = "Some" /\ args.inits = 1

\* a call that finds the random source present leaves it present and does
\* not create another; a call that finds it absent creates it
C23_Step ==
    /\ thread_rng = "Some" => thread_rng' = "Some" /\ args'.inits = args.inits
    /\ (thread_rng = "None" /\ args'.calls = args.calls + 1) =>
            thread_rng' = "Some" /\ args'.inits = args.inits + 1

\* C23: the generator's random source is lazily initialized: absent (None)
\* from construction until the first gen_secret call, present (Some) after
\* it, and once present never reset to absent nor created again by a later
\* gen_secret call.
C23_LazyRng == [] C23_State /\ [][C23_Step]_vars

\* gen_secret was called twice with the default range: the random source is
\* present and was created once
C23_Witness ==
    /\ pc = "gen_secret"
    /\ min = MIN_SECRET /\ max = MAX_SECRET
    /\ args.calls = 2
    /\ args.inits = 1
    /\ thread_rng = "Some"
    /\ secret = 99

====
